---- MODULE Spec2Model ----
(***************************************************************************)
(* Model of src/server/youtube-analyzer.py: main() fetches a transcript,   *)
(* concatenates it, sends its first 4000 characters to the completion      *)
(* service, and normalizes the free-text answer into a JSON record.        *)
(*                                                                         *)
(* A Python str is a sequence of one-character strings, so that lower(),   *)
(* `in`, slicing, strip() and re.search(r'(\d+)') are computed character   *)
(* by character.  Only the JSON documents printed by json.dumps are kept   *)
(* in `out`; the progress diagnostics printed around them are not.         *)
(***************************************************************************)
EXTENDS Integers, Sequences, FiniteSets, TLC

VARIABLES pc, video_id, result_list, transcript, full_text, prompt_text,
          completion, analysis, exc, out, calls

vars == <<pc, video_id, result_list, transcript, full_text, prompt_text,
          completion, analysis, exc, out, calls>>

(***************************************************************************)
(* Bounds of the model.                                                    *)
(***************************************************************************)
\* longest transcript (number of entries) the transcript service returns
MaxEntries == 2
\* most fragments a completion-service answer is assembled from
MaxParts == 3
\* length of the one long subtitle line; with the short lines it gives
\* transcripts of 3998, 4000, 4002 and 7997 characters
BlockLen == 3998

(***************************************************************************)
(* Python values.                                                          *)
(***************************************************************************)
\* None: a one-element sequence whose element is no character
NoneValue == <<"<None>">>
\* a local of main() that has not been assigned yet
Unbound == <<"<unbound>">>

UPPER == <<"A","B","C","D","E","F","G","H","I","J","K","L","M","N","O","P","Q","R","S","T","U","V","W","X","Y","Z">>
LOWER == <<"a","b","c","d","e","f","g","h","i","j","k","l","m","n","o","p","q","r","s","t","u","v","w","x","y","z">>
DIGITS == <<"0","1","2","3","4","5","6","7","8","9">>

\* str.lower() on one character
LowerChar(c) ==
  IF \E i \in 1..Len(UPPER) : UPPER[i] = c
  THEN LOWER[CHOOSE i \in 1..Len(UPPER) : UPPER[i] = c]
  ELSE c

\* str.lower(); None has no such attribute and the caller guards it
Lower(s) == [i \in 1..Len(s) |-> LowerChar(s[i])]

\* `sub in s` for two strings
Contains(s, sub) ==
  \E i \in 0..(Len(s) - Len(sub)) : SubSeq(s, i + 1, i + Len(sub)) = sub

\* the regular expression class \d on the characters the model uses
IsDigit(c) == \E i \in 1..Len(DIGITS) : DIGITS[i] = c

DigitVal(c) == (CHOOSE i \in 1..Len(DIGITS) : DIGITS[i] = c) - 1

\* int() of a string of digits, read left to right
RECURSIVE IntOf(_)
IntOf(s) ==
  IF s = << >> THEN 0
  ELSE 10 * IntOf(SubSeq(s, 1, Len(s) - 1)) + DigitVal(s[Len(s)])

\* where a greedy \d+ that starts at i stops
RECURSIVE RunEnd(_, _)
RunEnd(s, i) ==
  IF i < Len(s) /\ IsDigit(s[i + 1]) THEN RunEnd(s, i + 1) ELSE i

\* a slip: the pattern (\d) in place of (\d+)
ReSearchOneDigit(s) ==
  IF \E i \in 1..Len(s) : IsDigit(s[i])
  THEN LET b == CHOOSE i \in 1..Len(s) :
                   /\ IsDigit(s[i])
                   /\ \A j \in 1..(i - 1) : ~IsDigit(s[j])
       IN  SubSeq(s, b, b)
  ELSE NoneValue

\* re.search(r'(\d+)', s): the leftmost match, or None
ReSearchDigits(s) ==
  IF \E i \in 1..Len(s) : IsDigit(s[i])
  THEN LET b == CHOOSE i \in 1..Len(s) :
                   /\ IsDigit(s[i])
                   /\ \A j \in 1..(i - 1) : ~IsDigit(s[j])
       IN  SubSeq(s, b, RunEnd(s, b))
  ELSE NoneValue

\* str.strip(): the only whitespace the model's texts hold is the space
RECURSIVE LStrip(_)
LStrip(s) ==
  IF s # << >> /\ Head(s) = " " THEN LStrip(Tail(s)) ELSE s

RECURSIVE RStrip(_)
RStrip(s) ==
  IF s # << >> /\ s[Len(s)] = " " THEN RStrip(SubSeq(s, 1, Len(s) - 1)) ELSE s

Strip(s) == RStrip(LStrip(s))

\* s[:n]
Prefix(s, n) == SubSeq(s, 1, IF Len(s) < n THEN Len(s) ELSE n)

(***************************************************************************)
(* Transcript entries and the shapes api.fetch returns.                    *)
(***************************************************************************)
\* an entry is a dict ("map") or an object ("obj"); it may lack `text`, and
\* an object then still has its str() form
Entry(shape, has, text, repr) ==
  [shape |-> shape, has |-> has, text |-> text, repr |-> repr]

ObjRepr == <<"<","o",">">>
ShortTexts == { <<"a">>, <<"b"," ","c">> }
Block == [i \in 1..BlockLen |-> "x"]

SmallEntries ==
  { Entry(sh, TRUE, t, ObjRepr) : sh \in {"map", "obj"}, t \in ShortTexts }
    \cup { Entry("map", FALSE, << >>, << >>), Entry("obj", FALSE, << >>, ObjRepr) }

RECURSIVE SeqsUpTo(_, _)
SeqsUpTo(S, n) ==
  IF n = 0 THEN { << >> }
  ELSE LET shorter == SeqsUpTo(S, n - 1)
       IN  shorter \cup { Append(q, e) : q \in shorter, e \in S }

LongTranscripts ==
  LET blk == Entry("map", TRUE, Block, << >>)
      oblk == Entry("obj", TRUE, Block, ObjRepr)
  IN  { <<blk>>, <<oblk>>,
        <<blk, Entry("map", TRUE, <<"a">>, << >>)>>,
        <<blk, Entry("obj", TRUE, <<"b"," ","c">>, ObjRepr)>>,
        <<blk, oblk>> }

Transcripts == SeqsUpTo(SmallEntries, MaxEntries)

Track(has, t) == [hasTranscript |-> has, transcript |-> t]

Tracks ==
  { << >>, <<Track(FALSE, << >>)>> }
    \cup { <<Track(TRUE, t)>> : t \in Transcripts }

\* list(api.fetch(video_id)): a flat list of entries, or a one-element list
\* holding a wrapper whose `tracks` is a dict key ("mapping"), an instance
\* attribute ("object", so in __dict__) or a class-level attribute
\* ("property", so not in __dict__)
ResultList(form, items, tracks) ==
  [form |-> form, items |-> items, tracks |-> tracks]

NoResult == ResultList("unbound", << >>, << >>)

FetchResults ==
  { ResultList("flat", t, << >>) : t \in Transcripts \cup LongTranscripts }
    \cup { ResultList(f, << >>, tr) :
             f \in {"mapping", "object", "property"}, tr \in Tracks }

ResultLen(r) == IF r.form = "flat" THEN Len(r.items) ELSE 1

(***************************************************************************)
(* What the two external services may do.                                  *)
(***************************************************************************)
\* os.environ.get("VIDEO_ID", "5NojPQTNx9s")
DEFAULT_VIDEO_ID == <<"5","N","o","j","P","Q","T","N","x","9","s">>
VideoIds == { DEFAULT_VIDEO_ID, <<"d","Q","w","4">> }

ListErrors == { <<"V","i","d","e","o"," ","u","n","a","v","a","i","l","a","b","l","e">> }
FetchErrors == { <<"S","u","b","t","i","t","l","e","s"," ","a","r","e"," ","d","i","s","a","b","l","e","d">> }
INDEX_ERROR == <<"l","i","s","t"," ","i","n","d","e","x"," ","o","u","t"," ","o","f"," ","r","a","n","g","e">>
ATTRIBUTE_ERROR == <<"'","N","o","n","e","T","y","p","e","'"," ","o","b","j","e","c","t"," ","h","a","s"," ","n","o"," ","a","t","t","r","i","b","u","t","e"," ","'","l","o","w","e","r","'">>
KEY_ERROR == <<"'","t","r","a","n","s","c","r","i","p","t","'">>

CompletionErrors ==
  { <<"C","o","n","n","e","c","t","i","o","n"," ","e","r","r","o","r",".">>, <<"E","r","r","o","r"," ","c","o","d","e",":"," ","4","2","9">>,
    <<"E","r","r","o","r"," ","c","o","d","e",":"," ","4","0","0"," ","-"," ","g","e","n","d","e","r"," ","b","i","a","s">>, <<"t","o","x","i","c","i","t","y"," ","s","c","o","r","e"," ","9"," ","r","e","j","e","c","t","e","d">> }

Fragments ==
  { <<"t","o","x","i","c","i","t","y"," ","s","c","o","r","e">>, <<"T","o","x","i","c","i","t","y">>, <<" ","S","c","o","r","e",":"," ">>,
    <<"7">>, <<"1","0">>, <<"2","0","2","4",","," ">>,
    <<"b","i","a","s">>, <<"B","I","A","S">>, <<"G","e","n","d","e","r">>,
    <<"p","o","l","i","t","i","c","a","l">>, <<"R","a","c","i","a","l">>, <<"c","u","l","t","u","r","a","l">> }

RECURSIVE Concat(_)
Concat(parts) ==
  IF parts = << >> THEN << >> ELSE Head(parts) \o Concat(Tail(parts))

\* answers of the completion service assembled from fragments
Responses == { Concat(p) : p \in SeqsUpTo(Fragments, MaxParts) }

SampleResponses ==
  { <<"T","o","x","i","c","i","t","y"," ","s","c","o","r","e",":"," ","7"," ","o","u","t"," ","o","f"," ","1","0">>,
    <<"I","n"," ","2","0","2","4",","," ","t","h","e"," ","t","o","x","i","c","i","t","y"," ","s","c","o","r","e"," ","i","s"," ","3">>,
    <<"P","o","l","i","t","i","c","a","l"," ","a","n","d"," ","g","e","n","d","e","r"," ","b","i","a","s">>,
    <<"G","e","n","d","e","r"," ","b","a","l","a","n","c","e",","," ","n","o"," ","i","s","s","u","e","s">>,
    <<"N","o"," ","i","s","s","u","e","s"," ","f","o","u","n","d">> }

Outcome(kind, text) == [kind |-> kind, text |-> text]

NoOutcome == Outcome("none", << >>)

\* openai.chat.completions.create: raises, or returns a message whose
\* content is a string or None
CompletionOutcomes ==
  { Outcome("raise", m) : m \in CompletionErrors }
    \cup { Outcome("content", r) : r \in SampleResponses }
    \cup { Outcome("content", NoneValue) }

(***************************************************************************)
(* get_full_transcript_text                                                *)
(***************************************************************************)
\* a slip: str(entry) for every object, its `text` attribute never read
EntryTextStrOfObject(entry) ==
  IF entry.shape = "map"
  THEN (IF entry.has THEN entry.text ELSE << >>)
  ELSE entry.repr

EntryText(entry) ==
  IF entry.shape = "map"
  THEN (IF entry.has THEN entry.text ELSE << >>)
  ELSE (IF entry.has THEN entry.text ELSE entry.repr)

RECURSIVE Accumulate(_, _)
Accumulate(acc, t) ==
  IF t = << >> THEN acc
  ELSE Accumulate(acc \o EntryText(Head(t)) \o <<" ">>, Tail(t))

get_full_transcript_text(t) == Strip(Accumulate(<< >>, t))

(***************************************************************************)
(* analyze_content                                                         *)
(***************************************************************************)
MAX_PROMPT_CHARS == 4000

ERROR_PREFIX == <<"E","r","r","o","r"," ","a","n","a","l","y","z","i","n","g"," ","c","o","n","t","e","n","t",":"," ">>

\* a slip: the whole transcript_text embedded in the prompt
PromptTranscriptWhole(text) == text

\* the transcript_text[:4000] embedded in the prompt
PromptTranscript(text) == Prefix(text, MAX_PROMPT_CHARS)

\* what analyze_content returns for an outcome of the completion call
AnalyzeResult(o) ==
  IF o.kind = "raise" THEN ERROR_PREFIX \o o.text ELSE o.text

(***************************************************************************)
(* The normalizer of main()                                                *)
(***************************************************************************)
TOXICITY_PHRASE == <<"t","o","x","i","c","i","t","y"," ","s","c","o","r","e">>
BIAS_WORD == <<"b","i","a","s">>
DEFAULT_SCORE == 5

\* analysis.lower() raises AttributeError when analysis is None
NormalizationRaises(a) == a = NoneValue

ToxicityScore(a) ==
  IF Contains(Lower(a), TOXICITY_PHRASE)
  THEN LET score_match == ReSearchDigits(a)
       IN  IF score_match # NoneValue THEN IntOf(score_match) ELSE DEFAULT_SCORE
  ELSE DEFAULT_SCORE

\* a slip: the keyword looked up in analysis, not in analysis.lower()
TagIfCaseSensitive(a, word, tag) == IF Contains(a, word) THEN <<tag>> ELSE << >>

TagIf(a, word, tag) == IF Contains(Lower(a), word) THEN <<tag>> ELSE << >>

BiasTags(a) ==
  IF Contains(Lower(a), BIAS_WORD)
  THEN TagIf(a, <<"p","o","l","i","t","i","c","a","l">>, <<"P","o","l","i","t","i","c","a","l">>)
         \o TagIf(a, <<"c","u","l","t","u","r","a","l">>, <<"C","u","l","t","u","r","a","l">>)
         \o TagIf(a, <<"g","e","n","d","e","r">>, <<"G","e","n","d","e","r">>)
         \o TagIf(a, <<"r","a","c","i","a","l">>, <<"R","a","c","i","a","l">>)
  ELSE << >>

\* the placeholder emotions, in tenths
EMOTIONS ==
  [anger |-> 3, joy |-> 4, trust |-> 5, fear |-> 2,
   sadness |-> 3, surprise |-> 4, disgust |-> 2]

\* the full AnalysisResult record
StructuredResult(vid, score, tags, a) ==
  [shape |-> "result",
   videoId |-> vid,
   title |-> <<"V","i","d","e","o"," ">> \o vid,
   channelName |-> <<"U","n","k","n","o","w","n"," ","C","h","a","n","n","e","l">>,
   publishDate |-> <<"2","0","2","4","-","0","1","-","0","1","T","0","0",":","0","0",":","0","0","Z">>,
   thumbnail |-> <<"h","t","t","p","s",":","/","/","i","m","g",".","y","o","u","t","u","b","e",".","c","o","m","/","v","i","/">> \o vid \o <<"/","m","a","x","r","e","s","d","e","f","a","u","l","t",".","j","p","g">>,
   toxicityScore |-> score,
   biasTags |-> tags,
   emotions |-> EMOTIONS,
   analysis |-> a]

FALLBACK_TAGS == << <<"U","n","k","n","o","w","n">> >>

NO_TRANSCRIPT_MSG == <<"N","o"," ","t","r","a","n","s","c","r","i","p","t"," ","d","a","t","a"," ","r","e","t","u","r","n","e","d">>
FAILED_PREFIX == <<"A","n","a","l","y","s","i","s"," ","f","a","i","l","e","d",":"," ">>

\* the reduced {error, videoId} record
ErrorResult(msg, vid) == [shape |-> "error", error |-> msg, videoId |-> vid]

(***************************************************************************)
(* main(): one action per step between two external calls.                 *)
(***************************************************************************)
Init ==
  /\ pc = "list"
  /\ video_id \in VideoIds
  /\ result_list = NoResult
  /\ transcript = Unbound
  /\ full_text = Unbound
  /\ prompt_text = Unbound
  /\ completion = NoOutcome
  /\ analysis = Unbound
  /\ exc = Unbound
  /\ out = << >>
  /\ calls = 0

\* an exception raised inside the outer try: control goes to its handler
Raise(msg) ==
  /\ exc' = msg
  /\ pc' = "except"

\* api.list(video_id)
ApiList ==
  /\ pc = "list"
  /\ \/ /\ pc' = "fetch"
        /\ UNCHANGED exc
     \/ \E m \in ListErrors : Raise(m)
  /\ UNCHANGED <<video_id, result_list, transcript, full_text, prompt_text,
                 completion, analysis, out, calls>>

\* result = api.fetch(video_id); result_list = list(result)
ApiFetch ==
  /\ pc = "fetch"
  /\ \/ /\ \E r \in FetchResults : result_list' = r
        /\ pc' = "check"
        /\ UNCHANGED exc
     \/ /\ \E m \in FetchErrors : Raise(m)
        /\ UNCHANGED result_list
  /\ UNCHANGED <<video_id, transcript, full_text, prompt_text,
                 completion, analysis, out, calls>>

\* a slip: `>= 0` in the length test, so the else branch is never taken
CheckLengthNonNegative ==
  /\ pc = "check"
  /\ IF ResultLen(result_list) >= 0
     THEN /\ pc' = "extract"
          /\ UNCHANGED out
     ELSE /\ out' = Append(out, ErrorResult(NO_TRANSCRIPT_MSG, video_id))
          /\ pc' = "done"
  /\ UNCHANGED <<video_id, result_list, transcript, full_text, prompt_text,
                 completion, analysis, exc, calls>>

\* if len(result_list) > 0: ... else: print the "no transcript" record
CheckLength ==
  /\ pc = "check"
  /\ IF ResultLen(result_list) > 0
     THEN /\ pc' = "extract"
          /\ UNCHANGED out
     ELSE /\ out' = Append(out, ErrorResult(NO_TRANSCRIPT_MSG, video_id))
          /\ pc' = "done"
  /\ UNCHANGED <<video_id, result_list, transcript, full_text, prompt_text,
                 completion, analysis, exc, calls>>

\* the shape detection: `tracks` key, `tracks` attribute, or the list itself
ExtractTranscript ==
  /\ pc = "extract"
  /\ LET r == result_list
     IN  IF r.form \in {"mapping", "object"}
         THEN IF Len(r.tracks) > 0
              THEN /\ transcript' =
                        (IF r.tracks[1].hasTranscript
                         THEN r.tracks[1].transcript ELSE << >>)
                   /\ pc' = "concat"
                   /\ UNCHANGED exc
              ELSE \* print("No tracks found"); return
                   /\ pc' = "done"
                   /\ UNCHANGED <<transcript, exc>>
         ELSE IF r.form = "property"
         THEN IF Len(r.tracks) = 0
              THEN Raise(INDEX_ERROR) /\ UNCHANGED transcript
              ELSE IF ~r.tracks[1].hasTranscript
              THEN Raise(KEY_ERROR) /\ UNCHANGED transcript
              ELSE /\ transcript' = r.tracks[1].transcript
                   /\ pc' = "concat"
                   /\ UNCHANGED exc
         ELSE /\ transcript' = r.items
              /\ pc' = "concat"
              /\ UNCHANGED exc
  /\ UNCHANGED <<video_id, result_list, full_text, prompt_text,
                 completion, analysis, out, calls>>

\* full_text = get_full_transcript_text(transcript)
Concatenate ==
  /\ pc = "concat"
  /\ full_text' = get_full_transcript_text(transcript)
  /\ pc' = "analyze"
  /\ UNCHANGED <<video_id, result_list, transcript, prompt_text,
                 completion, analysis, exc, out, calls>>

\* analysis = analyze_content(full_text, video_id)
AnalyzeContent ==
  /\ pc = "analyze"
  /\ calls' = calls + 1
  /\ prompt_text' = PromptTranscript(full_text)
  /\ \E o \in CompletionOutcomes :
       /\ completion' = o
       /\ analysis' = AnalyzeResult(o)
  /\ pc' = "normalize"
  /\ UNCHANGED <<video_id, result_list, transcript, full_text, exc, out>>

\* the inner try: extract score and tags, build and print the record
Normalize ==
  /\ pc = "normalize"
  /\ IF NormalizationRaises(analysis)
     THEN /\ pc' = "fallback"
          /\ UNCHANGED out
     ELSE /\ out' = Append(out, StructuredResult(video_id,
                       ToxicityScore(analysis), BiasTags(analysis), analysis))
          /\ pc' = "done"
  /\ UNCHANGED <<video_id, result_list, transcript, full_text, prompt_text,
                 completion, analysis, exc, calls>>

\* a slip: the inner handler raises again instead of printing the fallback
FallbackReraises ==
  /\ pc = "fallback"
  /\ Raise(ATTRIBUTE_ERROR)
  /\ UNCHANGED <<video_id, result_list, transcript, full_text, prompt_text,
                 completion, analysis, out, calls>>

\* a slip: the fallback record built with the tags of the normal path
FallbackEmptyTags ==
  /\ pc = "fallback"
  /\ out' = Append(out, StructuredResult(video_id,
               DEFAULT_SCORE, << >>, analysis))
  /\ pc' = "done"
  /\ UNCHANGED <<video_id, result_list, transcript, full_text, prompt_text,
                 completion, analysis, exc, calls>>

\* the inner except: print the fallback record
Fallback ==
  /\ pc = "fallback"
  /\ out' = Append(out, StructuredResult(video_id,
               DEFAULT_SCORE, FALLBACK_TAGS, analysis))
  /\ pc' = "done"
  /\ UNCHANGED <<video_id, result_list, transcript, full_text, prompt_text,
                 completion, analysis, exc, calls>>

\* the outer except: print the "Analysis failed" record
ExceptOuter ==
  /\ pc = "except"
  /\ out' = Append(out, ErrorResult(FAILED_PREFIX \o exc, video_id))
  /\ pc' = "done"
  /\ UNCHANGED <<video_id, result_list, transcript, full_text, prompt_text,
                 completion, analysis, exc, calls>>

Next ==
  \/ ApiList
  \/ ApiFetch
  \/ CheckLength
  \/ ExtractTranscript
  \/ Concatenate
  \/ AnalyzeContent
  \/ Normalize
  \/ Fallback
  \/ ExceptOuter

Spec == Init /\ [][Next]_vars


(***************************************************************************)
(* The normalizer on its own: main() has just returned from                *)
(* analyze_content with some answer of the completion service.             *)
(***************************************************************************)
InitNorm ==
  /\ pc = "normalize"
  /\ video_id = DEFAULT_VIDEO_ID
  /\ transcript = << Entry("map", TRUE, <<"a">>, << >>) >>
  /\ result_list = ResultList("flat", transcript, << >>)
  /\ full_text = get_full_transcript_text(transcript)
  /\ prompt_text = PromptTranscript(full_text)
  /\ completion \in
       { Outcome("content", r) :
           r \in Responses \cup SampleResponses \cup {NoneValue} }
  /\ analysis = AnalyzeResult(completion)
  /\ exc = Unbound
  /\ out = << >>
  /\ calls = 1

NextNorm ==
  \/ Normalize
  \/ Fallback

SpecNorm == InitNorm /\ [][NextNorm]_vars

(***************************************************************************)
(* Vocabulary of the properties.                                           *)
(***************************************************************************)
FullFields ==
  {"shape", "videoId", "title", "channelName", "publishDate", "thumbnail",
   "toxicityScore", "biasTags", "emotions", "analysis"}

ErrorFields == {"shape", "error", "videoId"}

IsFull(doc) == doc.shape = "result" /\ DOMAIN doc = FullFields

IsError(doc) == doc.shape = "error" /\ DOMAIN doc = ErrorFields

Finished == pc = "done"

Range(s) == { s[i] : i \in 1..Len(s) }

\* the run printed one full record; `doc` is only read under this guard
PrintedFull == Finished /\ Len(out) = 1 /\ IsFull(out[1])

\* two characters that are equal up to letter case
SameLetter(c, d) ==
  c = d \/ \E i \in 1..Len(UPPER) : {c, d} = {UPPER[i], LOWER[i]}

\* `word` occurs in `a` at some position, whatever the letter case
Mentions(a, word) ==
  \E i \in 1..(Len(a) - Len(word) + 1) :
    \A k \in 1..Len(word) : SameLetter(a[i + k - 1], word[k])

\* the service returned a result that holds no transcript entry
NoEntries(r) ==
  \/ r.form = "flat" /\ r.items = << >>
  \/ r.form \in {"mapping", "object", "property"} /\ r.tracks = << >>
  \/ /\ r.form \in {"mapping", "object", "property"}
     /\ r.tracks # << >>
     /\ (~r.tracks[1].hasTranscript \/ r.tracks[1].transcript = << >>)

(***************************************************************************)
(* C1: every run of main() that gets past the credential check has         *)
(* written exactly one JSON document when it returns.                      *)
(***************************************************************************)
C1_ExactlyOneDocument ==
  Finished => Len(out) = 1 /\ (IsFull(out[1]) \/ IsError(out[1]))

(***************************************************************************)
(* C2: an exception raised before analyze_content is called ends the run   *)
(* with the single {error, videoId} record and nothing else; once          *)
(* analyze_content has been called no exception reaches the outer handler  *)
(* and the run ends with a single full record.                             *)
(***************************************************************************)
C2_StageAsymmetry ==
  /\ exc # Unbound =>
       /\ calls = 0
       /\ \A i \in 1..Len(out) : IsError(out[i])
       /\ Finished => Len(out) = 1 /\ out[1].videoId = video_id
  /\ calls > 0 =>
       /\ exc = Unbound
       /\ pc # "except"
       /\ \A i \in 1..Len(out) : IsFull(out[i])
       /\ Finished => Len(out) = 1

C2_Witness ==
  /\ Finished
  /\ calls > 0
  /\ completion.kind = "raise"
  /\ Len(out) = 1
  /\ IsFull(out[1])

(***************************************************************************)
(* C3: when the transcript service returns zero entries the output is      *)
(* exactly {"error": "No transcript data returned", "videoId": id} and     *)
(* analyze_content is never called.                                        *)
(***************************************************************************)
C3_NoTranscriptData ==
  result_list.form = "flat" /\ result_list.items = << >> =>
    /\ calls = 0
    /\ Finished =>
         out = << [shape |-> "error",
                   error |-> <<"N","o"," ","t","r","a","n","s","c","r","i","p","t"," ","d","a","t","a"," ","r","e","t","u","r","n","e","d">>,
                   videoId |-> video_id] >>

C3_Witness ==
  /\ Finished
  /\ result_list.form = "flat"
  /\ result_list.items = << >>
  /\ Len(out) = 1

(***************************************************************************)
(* C4: whenever the service returns no tracks or no entries (empty flat    *)
(* list, empty `tracks`, first track with an empty or absent transcript)   *)
(* the run ends with the {error, videoId} record and never calls           *)
(* analyze_content.                                                        *)
(***************************************************************************)
C4_TranscriptUnavailable ==
  NoEntries(result_list) =>
    /\ calls = 0
    /\ Finished => Len(out) = 1 /\ IsError(out[1])

(***************************************************************************)
(* C5: when the completion call raises with message m the run prints a     *)
(* full record with analysis "Error analyzing content: m", toxicityScore 5 *)
(* and biasTags [].                                                        *)
(***************************************************************************)
C5_AnalyzerThrows ==
  Finished /\ completion.kind = "raise" =>
    /\ Len(out) = 1
    /\ IsFull(out[1])
    /\ out[1].analysis = <<"E","r","r","o","r"," ","a","n","a","l","y","z","i","n","g"," ","c","o","n","t","e","n","t",":"," ">> \o completion.text
    /\ out[1].toxicityScore = 5
    /\ out[1].biasTags = << >>

(***************************************************************************)
(* C6: biasTags of a response: with "bias" and "gender" it is ["Gender"];  *)
(* with "bias" and no category keyword it is []; without "bias" it is [].  *)
(***************************************************************************)
MentionsCategory(a) ==
  \/ Mentions(a, <<"p","o","l","i","t","i","c","a","l">>)
  \/ Mentions(a, <<"c","u","l","t","u","r","a","l">>)
  \/ Mentions(a, <<"g","e","n","d","e","r">>)
  \/ Mentions(a, <<"r","a","c","i","a","l">>)

C6_BiasTagsOriginal ==
  PrintedFull /\ analysis # NoneValue =>
    LET a == analysis
        tags == out[1].biasTags
    IN  /\ Mentions(a, <<"b","i","a","s">>) /\ Mentions(a, <<"g","e","n","d","e","r">>) =>
             tags = << <<"G","e","n","d","e","r">> >>
        /\ Mentions(a, <<"b","i","a","s">>) /\ ~MentionsCategory(a) => tags = << >>
        /\ ~Mentions(a, <<"b","i","a","s">>) => tags = << >>

\* C6 as amended: with "bias" and "gender" the list contains "Gender", and
\* is ["Gender"] when none of "political", "cultural", "racial" occurs; with
\* "bias" and no category keyword it is []; without "bias" it is [].
C6_BiasTags ==
  PrintedFull /\ analysis # NoneValue =>
    LET a == analysis
        tags == out[1].biasTags
    IN  /\ Mentions(a, <<"b","i","a","s">>) /\ Mentions(a, <<"g","e","n","d","e","r">>) =>
             /\ \E i \in 1..Len(tags) : tags[i] = <<"G","e","n","d","e","r">>
             /\ (~Mentions(a, <<"p","o","l","i","t","i","c","a","l">>) /\ ~Mentions(a, <<"c","u","l","t","u","r","a","l">>)
                   /\ ~Mentions(a, <<"r","a","c","i","a","l">>)) => tags = << <<"G","e","n","d","e","r">> >>
        /\ Mentions(a, <<"b","i","a","s">>) /\ ~MentionsCategory(a) => tags = << >>
        /\ ~Mentions(a, <<"b","i","a","s">>) => tags = << >>

C6_Witness ==
  /\ PrintedFull
  /\ Mentions(analysis, <<"b","i","a","s">>)
  /\ Mentions(analysis, <<"g","e","n","d","e","r">>)
  /\ Mentions(analysis, <<"p","o","l","i","t","i","c","a","l">>)
  /\ out[1].biasTags = << <<"P","o","l","i","t","i","c","a","l">>, <<"G","e","n","d","e","r">> >>

(***************************************************************************)
(* C7: toxicityScore is 5 when the response lacks "toxicity score" or has  *)
(* no digit; otherwise it is the value of the leftmost maximal run of      *)
(* digits of the whole response, unclamped.                                *)
(***************************************************************************)
RECURSIVE PlaceValue(_, _, _)
PlaceValue(a, i, j) ==
  IF i > j THEN 0
  ELSE DigitVal(a[i]) * 10 ^ (j - i) + PlaceValue(a, i + 1, j)

\* a[i..j] is the leftmost maximal run of digits of a
LeftmostRun(a, i, j) ==
  /\ i <= j
  /\ \A k \in 1..(i - 1) : a[k] \notin Range(DIGITS)
  /\ \A k \in i..j : a[k] \in Range(DIGITS)
  /\ (j = Len(a) \/ a[j + 1] \notin Range(DIGITS))

C7_ToxicityScore ==
  PrintedFull /\ analysis # NoneValue =>
    LET a == analysis
        score == out[1].toxicityScore
    IN  /\ IF ~Mentions(a, <<"t","o","x","i","c","i","t","y"," ","s","c","o","r","e">>)
              \/ (\A k \in 1..Len(a) : a[k] \notin Range(DIGITS))
           THEN score = 5
           ELSE \E i \in 1..Len(a) : \E j \in i..Len(a) :
                  LeftmostRun(a, i, j) /\ score = PlaceValue(a, i, j)
        /\ a = <<"I","n"," ","2","0","2","4",","," ","t","h","e"," ","t","o","x","i","c","i","t","y"," ","s","c","o","r","e"," ","i","s"," ","3">> => score = 2024
        /\ a = <<"T","o","x","i","c","i","t","y"," ","s","c","o","r","e",":"," ","7"," ","o","u","t"," ","o","f"," ","1","0">> => score = 7

C7_Witness ==
  /\ PrintedFull
  /\ analysis = <<"I","n"," ","2","0","2","4",","," ","t","h","e"," ","t","o","x","i","c","i","t","y"," ","s","c","o","r","e"," ","i","s"," ","3">>
  /\ out[1].toxicityScore = 2024

(***************************************************************************)
(* C8: the transcript text embedded in the prompt is the first             *)
(* min(len, 4000) characters of the concatenated text; a longer transcript *)
(* is truncated and does not fail the run.                                 *)
(***************************************************************************)
C8_PromptBudget ==
  calls > 0 =>
    /\ Len(prompt_text) <= 4000
    /\ Len(prompt_text) = (IF Len(full_text) < 4000 THEN Len(full_text) ELSE 4000)
    /\ \A i \in 1..Len(prompt_text) : prompt_text[i] = full_text[i]
    /\ exc = Unbound
    /\ Finished => Len(out) = 1 /\ IsFull(out[1])

C8_Witness ==
  /\ Finished
  /\ calls > 0
  /\ Len(full_text) > 4000
  /\ Len(prompt_text) = 4000
  /\ Len(out) = 1
  /\ IsFull(out[1])

(***************************************************************************)
(* C9: get_full_transcript_text gives the same text for entries given as   *)
(* mappings and as objects with the same content, an entry without text    *)
(* contributing the empty string in either shape.                          *)
(***************************************************************************)
AsShape(t, shape) ==
  [i \in 1..Len(t) |->
     Entry(shape, t[i].has, t[i].text, IF shape = "obj" THEN ObjRepr ELSE << >>)]

\* the texts joined by single spaces, then stripped
RECURSIVE SpaceJoin(_)
SpaceJoin(texts) ==
  IF texts = << >> THEN << >>
  ELSE IF Len(texts) = 1 THEN texts[1]
  ELSE texts[1] \o <<" ">> \o SpaceJoin(Tail(texts))

Content(e) == IF e.has THEN e.text ELSE << >>

C9_ShapeIndependentOriginal ==
  full_text # Unbound =>
    /\ full_text = get_full_transcript_text(AsShape(transcript, "map"))
    /\ full_text = get_full_transcript_text(AsShape(transcript, "obj"))
    /\ full_text = Strip(SpaceJoin([i \in 1..Len(transcript) |-> Content(transcript[i])]))

\* C9 as amended: the same text in both shapes when every entry carries a
\* text; an entry without text contributes the empty string as a mapping
\* and its own string form as an object.
Contribution(e) ==
  IF e.has THEN e.text ELSE IF e.shape = "obj" THEN e.repr ELSE << >>

C9_ShapeIndependent ==
  full_text # Unbound =>
    /\ (\A i \in 1..Len(transcript) : transcript[i].has) =>
         /\ full_text = get_full_transcript_text(AsShape(transcript, "map"))
         /\ full_text = get_full_transcript_text(AsShape(transcript, "obj"))
    /\ full_text =
         Strip(SpaceJoin([i \in 1..Len(transcript) |-> Contribution(transcript[i])]))

C9_Witness ==
  /\ full_text # Unbound
  /\ Len(transcript) = 2
  /\ transcript[1].shape = "map" /\ transcript[1].has
  /\ transcript[2].shape = "obj" /\ transcript[2].has
  /\ full_text = <<"a"," ","b"," ","c">>

(***************************************************************************)
(* C10: when extracting the score or the tags raises (the content is None) *)
(* the run prints a full record with toxicityScore 5, biasTags ["Unknown"] *)
(* and the analysis value unchanged, and printing it does not fail.        *)
(***************************************************************************)
C10_NormalizerFallback ==
  /\ pc = "fallback" => analysis = NoneValue /\ out = << >> /\ exc = Unbound
  /\ Finished /\ calls > 0 /\ completion = Outcome("content", NoneValue) =>
       /\ Len(out) = 1
       /\ IsFull(out[1])
       /\ out[1].toxicityScore = 5
       /\ out[1].biasTags = << <<"U","n","k","n","o","w","n">> >>
       /\ out[1].analysis = completion.text
       /\ exc = Unbound

C10_Witness ==
  /\ Finished
  /\ completion = Outcome("content", NoneValue)
  /\ Len(out) = 1
  /\ out[1].biasTags = << <<"U","n","k","n","o","w","n">> >>

====
